---- MODULE Spec2Model ----
(***************************************************************************)
(* Smart Cage ML dashboard (smart_cage_dashboard_ml.py).                   *)
(*                                                                         *)
(* Several dashboard instances run the same Streamlit script.  Each has    *)
(* its own st.session_state; they share two files, admin_session.json and  *)
(* current_settings.json.  One script run of an instance is the sequence   *)
(*   sync settings -> session check -> login/logout -> buttons ->          *)
(*   automatic model load -> MQTT loop -> rerun                            *)
(* and runs of different instances interleave between file accesses.       *)
(* A button handler that ends in st.rerun() starts the next run at once.   *)
(*                                                                         *)
(* Spec      : the script runs of two instances over the session file and  *)
(*             the settings file.  No broker connection is up, so no       *)
(*             message arrives, and the users stay in "suhu" mode.         *)
(* SpecPipe  : the MQTT callbacks (on_message) of a connected instance,    *)
(*             for each combination of loaded models.  The variable calls  *)
(*             records what the last callback asked of its model and what  *)
(*             client.publish reported, answer what the model returned,    *)
(*             log_at_publish how long the log was when client.publish was *)
(*             called; the program never reads them.                       *)
(* SpecPanel : the script runs of one open dashboard whose viewer switches *)
(*             between the three monitoring modes, so that the gas and     *)
(*             light models are loaded too.                                *)
(* SpecLive  : Spec in which every instance goes on running its script,    *)
(*             as time.sleep(0.15); st.rerun() at its end makes it do.     *)
(*                                                                         *)
(* Abstractions: the timestamps of log entries and payloads are left out;  *)
(* generate_session_id never repeats an id; json.dumps and client.publish  *)
(* return (a publish on a lost connection returns an error code, which     *)
(* the handlers ignore); a fitted model is any of PredictOutcomes.         *)
(***************************************************************************)
EXTENDS Integers, Sequences, FiniteSets, TLC

\* ------------------------------------------------------------------ bounds
\* number of session ids generate_session_id hands out in one behaviour
MaxSessions == 2
\* number of MQTT messages delivered to one instance in one behaviour
MaxMsgs == 2

\* ------------------------------------------------------------- constants
Instances == {"A", "B"}

None == "None"
\* st.session_state.admin_session_id = None
NoSession == 0

ADMIN_PASSWORD == "smartcage"
\* what a user types into the password box
Passwords == {ADMIN_PASSWORD, "salah"}

AGE_MODEL_MAPPING ==
    ("0-3" :> "smart_cage_model_03.pkl") @@
    ("4-7" :> "smart_cage_model_47.pkl") @@
    ("8-14" :> "smart_cage_model_814.pkl") @@
    ("15-21" :> "smart_cage_model_1521.pkl") @@
    ("22-30" :> "smart_cage_model_2230.pkl")

\* the age buttons a user presses in the explored behaviours
ClickedCategories == {"0-3", "4-7"}

Modes == {"suhu", "gas", "ldr"}

\* outcome of os.path.exists + joblib.load on a model artifact
LoadOutcomes == {"ok", "notfound", "corrupt"}

\* ------------------------------------------------------------------ state
VARIABLES
    session_file,          \* admin_session.json
    settings_file,         \* current_settings.json
    issued,                \* session ids generated so far
    pc,                    \* position of each instance in its script run
    click,                 \* the widget event that triggered the run
    new_session_id,        \* local of the login handler
    admin_logged_in,
    admin_session_id,
    monitoring_mode,
    current_age_category,
    current_model_path,
    model,
    model_loaded,
    gas_model,
    gas_model_loaded,
    ldr_model,
    ldr_model_loaded,
    connected,
    inbound,               \* the messages handed to on_message so far
    outbox,                \* the client.publish calls made so far
    calls,                 \* the external calls of the last callback
    log_at_publish,        \* records in the channel's log at the last publish call
    answer,                \* what the model answered the last time it returned
    logs, last_data, stats,
    gas_logs, gas_last_data, gas_stats,
    ldr_logs, ldr_last_data, ldr_stats

coordVars == <<session_file, settings_file, issued, pc, click, new_session_id,
               admin_logged_in, admin_session_id, monitoring_mode>>
dhtVars == <<current_age_category, current_model_path, model, model_loaded>>
auxModelVars == <<gas_model, gas_model_loaded, ldr_model, ldr_model_loaded>>
pipeVars == <<connected, inbound, outbox, calls, log_at_publish, answer,
              logs, last_data, stats,
              gas_logs, gas_last_data, gas_stats, ldr_logs, ldr_last_data, ldr_stats>>
vars == <<coordVars, dhtVars, auxModelVars, pipeVars>>

\* ------------------------------------------------------------ file values
FileAbsent == [state |-> "absent", session_id |-> NoSession]
FileTruncated == [state |-> "truncated", session_id |-> NoSession]
SessionData(id) == [state |-> "ok", session_id |-> id]

SettingsAbsent == [state |-> "absent", age_category |-> None, model_path |-> None]
SettingsTruncated == [state |-> "truncated", age_category |-> None, model_path |-> None]
SettingsData(age, path) == [state |-> "ok", age_category |-> age, model_path |-> path]

NoClick == [widget |-> "none", value |-> ""]
Click(w, v) == [widget |-> w, value |-> v]

\* ------------------------------------------------- admin session helpers
\* a generator whose ids repeat
generate_session_id_repeat(n) == 1

\* timestamp to the second plus six random characters: a new id at every call
generate_session_id(n) == n + 1

\* a write that stores the record without the id
write_admin_session_empty(session_id) == SessionData(NoSession)

\* lines 139-146
write_admin_session(session_id) == SessionData(session_id)

\* json.load of a file that is missing or cut short gives None
read_admin_session(f) == IF f.state = "ok" THEN f ELSE FileAbsent

\* a logout that leaves the file where it is
clear_admin_session_keep(f) == f

\* lines 158-161
clear_admin_session(f) == FileAbsent

\* a check that takes a missing or unreadable file for "still valid"
check_session_valid_lenient(f, current_session_id) ==
    f.state = "ok" => f.session_id = current_session_id

\* every session file that can be read passes, whatever id it holds
check_session_valid_any_id(f, current_session_id) ==
    read_admin_session(f).state = "ok"

check_session_valid(f, current_session_id) ==
    LET session_data == read_admin_session(f) IN
    IF session_data.state # "ok" THEN FALSE
    ELSE session_data.session_id = current_session_id

\* ----------------------------------------------------------- model loads
DhtState(i) == [current_age_category |-> current_age_category[i],
                current_model_path |-> current_model_path[i],
                model |-> model[i],
                model_loaded |-> model_loaded[i]]

\* a load that marks the channel "not loaded" whenever it fails
load_dht_model_unloads(d, model_path, outcome) ==
    IF outcome = "ok"
    THEN [d EXCEPT !.model = model_path, !.model_loaded = TRUE,
                   !.current_model_path = model_path]
    ELSE [d EXCEPT !.model = None, !.model_loaded = FALSE]

\* lines 192-205: session_state is assigned only after joblib.load returned
load_dht_model(d, model_path, outcome) ==
    IF outcome = "ok"
    THEN [d EXCEPT !.model = model_path, !.model_loaded = TRUE,
                   !.current_model_path = model_path]
    ELSE d

load_gas_model(m, outcome) ==
    IF outcome = "ok" THEN [model |-> "mq2_gas_model.pkl", loaded |-> TRUE] ELSE m

load_ldr_model(m, outcome) ==
    IF outcome = "ok" THEN [model |-> "ldr_light_model.pkl", loaded |-> TRUE] ELSE m

\* -------------------------------------------------------- shared settings
save_shared_settings(d) == SettingsData(d.current_age_category, d.current_model_path)

load_shared_settings(f) == IF f.state = "ok" THEN f ELSE SettingsAbsent

\* a sync that adopts the category only when the model load succeeds
sync_settings_from_file_onload(d, f, outcome) ==
    LET settings == load_shared_settings(f)
        new_age == settings.age_category
    IN IF settings.state = "ok" /\ new_age # None /\ new_age # d.current_age_category
          /\ new_age \in DOMAIN AGE_MODEL_MAPPING /\ outcome = "ok"
       THEN load_dht_model([d EXCEPT !.current_age_category = new_age],
                           AGE_MODEL_MAPPING[new_age], outcome)
       ELSE d

\* a sync that reloads the model at every call
sync_settings_from_file_always(d, f, outcome) ==
    LET settings == load_shared_settings(f)
        new_age == settings.age_category
    IN IF settings.state = "ok" /\ new_age # None
       THEN LET d1 == [d EXCEPT !.current_age_category = new_age]
            IN IF new_age \in DOMAIN AGE_MODEL_MAPPING
               THEN load_dht_model(d1, AGE_MODEL_MAPPING[new_age], outcome)
               ELSE d1
       ELSE d

sync_settings_from_file(d, f, outcome) ==
    LET settings == load_shared_settings(f)
        new_age == settings.age_category
    IN IF settings.state = "ok" /\ new_age # None /\ new_age # d.current_age_category
       THEN LET d1 == [d EXCEPT !.current_age_category = new_age]
            IN IF new_age \in DOMAIN AGE_MODEL_MAPPING
               THEN load_dht_model(d1, AGE_MODEL_MAPPING[new_age], outcome)
               ELSE d1
       ELSE d

change_age_category(d, age_category, outcome) ==
    IF age_category \in DOMAIN AGE_MODEL_MAPPING
    THEN load_dht_model([d EXCEPT !.current_age_category = age_category],
                        AGE_MODEL_MAPPING[age_category], outcome)
    ELSE d

SetDht(i, d) ==
    /\ current_age_category' = [current_age_category EXCEPT ![i] = d.current_age_category]
    /\ current_model_path' = [current_model_path EXCEPT ![i] = d.current_model_path]
    /\ model' = [model EXCEPT ![i] = d.model]
    /\ model_loaded' = [model_loaded EXCEPT ![i] = d.model_loaded]

\* ------------------------------------------------------------ MQTT data
TOPIC_DATA == "final-project/Mahasiswa-Berpola-Pikir/smartcage/data"
TOPIC_PREDICTION == "final-project/Mahasiswa-Berpola-Pikir/smartcage/prediction"
TOPIC_GAS_DATA == "final-project/Mahasiswa-Berpola-Pikir/smartcage/gas/data"
TOPIC_GAS_PREDICTION == "final-project/Mahasiswa-Berpola-Pikir/smartcage/gas/prediction"
TOPIC_LDR_DATA == "final-project/Mahasiswa-Berpola-Pikir/smartcage/ldr/data"
TOPIC_LDR_PREDICTION == "final-project/Mahasiswa-Berpola-Pikir/smartcage/ldr/prediction"
\* a topic the client never subscribed to
TOPIC_OTHER == "final-project/Mahasiswa-Berpola-Pikir/smartcage/status"

\* JSON values.  Temperatures and humidities are in hundredths (55.01 is 5501).
JNum(v) == [t |-> "num", v |-> v]
JBool(b) == [t |-> "bool", v |-> IF b THEN 1 ELSE 0]
\* a text that is not a number
JStr == [t |-> "str", v |-> 0]
JMissing == [t |-> "missing", v |-> 0]

\* a payload json.loads turns into a dict
Dict(temp, humidity, gas_detected, ldr_value) ==
    [parsed |-> TRUE, temp |-> temp, humidity |-> humidity,
     gas_detected |-> gas_detected, ldr_value |-> ldr_value]
\* a payload json.loads rejects
Garbage ==
    [parsed |-> FALSE, temp |-> JMissing, humidity |-> JMissing,
     gas_detected |-> JMissing, ldr_value |-> JMissing]

Msg(topic, payload) == [topic |-> topic, payload |-> payload]

DhtMessages ==
    {Msg(TOPIC_DATA, Dict(JNum(3000), JNum(6500), JMissing, JMissing)),
     Msg(TOPIC_DATA, Dict(JNum(2450), JMissing, JMissing, JMissing)),
     Msg(TOPIC_DATA, Dict(JStr, JNum(6500), JMissing, JMissing)),
     Msg(TOPIC_DATA, Garbage)}

GasMessages ==
    {Msg(TOPIC_GAS_DATA, Dict(JNum(3000), JMissing, JBool(FALSE), JMissing)),
     Msg(TOPIC_GAS_DATA, Dict(JNum(5500), JMissing, JBool(TRUE), JMissing)),
     Msg(TOPIC_GAS_DATA, Dict(JNum(5501), JMissing, JBool(TRUE), JMissing)),
     Msg(TOPIC_GAS_DATA, Dict(JNum(6000), JMissing, JBool(TRUE), JMissing)),
     Msg(TOPIC_GAS_DATA, Dict(JNum(6000), JMissing, JMissing, JMissing)),
     Msg(TOPIC_GAS_DATA, Dict(JStr, JMissing, JBool(TRUE), JMissing)),
     Msg(TOPIC_GAS_DATA, Dict(JStr, JMissing, JBool(FALSE), JMissing))}

LdrMessages ==
    {Msg(TOPIC_LDR_DATA, Dict(JMissing, JMissing, JMissing, JNum(v))) :
        v \in {0, 1365, 1366, 2730, 2731, 4095}}
    \cup {Msg(TOPIC_LDR_DATA, Dict(JMissing, JMissing, JMissing, JMissing)),
          Msg(TOPIC_LDR_DATA, Dict(JMissing, JMissing, JMissing, JStr))}

OtherMessages ==
    {Msg(TOPIC_OTHER, Dict(JNum(3000), JNum(6500), JBool(TRUE), JNum(2000)))}

\* data.get(key, default)
Get(value, default) == IF value.t = "missing" THEN default ELSE value

\* float(x) and int(x) raise on a text that is not a number
Coerces(value) == value.t \in {"num", "bool"}

\* Python truth value
Truthy(value) ==
    CASE value.t = "bool" -> value.v = 1
      [] value.t = "num" -> value.v # 0
      [] value.t = "str" -> TRUE
      [] OTHER -> FALSE

\* x > n raises TypeError when x is a text
Comparable(value) == value.t \in {"num", "bool"}

\* ------------------------------------------------------------ classifiers
\* Confidence is in thousandths of a percent: 100.0 is 100000.
FullConfidence == 100000
NoConfidence == 0

\* round(confidence, 2)
Round2(c) == ((c + 5) \div 10) * 10

\* What one invocation of a fitted model does: predict raises, or returns a
\* label; the model has predict_proba or not; predict_proba raises or returns
\* probabilities whose maximum is proba (in units of 0.00001).
Outcome(raises, label, has_proba, proba) ==
    [raises |-> raises, label |-> label, has_proba |-> has_proba, proba |-> proba,
     rc |-> "ok"]

\* What client.publish reports: the message was handed to the socket, or
\* there is no connection (MQTT_ERR_NO_CONN).
PublishOutcomes == {"ok", "no_conn"}

WithRc(po, rc) == [po EXCEPT !.rc = rc]

\* The external calls one callback made: the model invocation ("none",
\* "returned", "raised") and the result code of client.publish ("none" when
\* it was not called).
Calls(predict, publish) == [predict |-> predict, publish |-> publish]

NoCalls == Calls("none", "none")

\* what a model invocation that returned has answered
Answer(po) == [label |-> po.label, has_proba |-> po.has_proba,
               proba |-> IF po.has_proba THEN po.proba ELSE 0]

NoAnswer == [label |-> "", has_proba |-> FALSE, proba |-> 0]

\* a client whose publish raises when the message cannot be sent
client_publish_raising(rc) == [raised |-> rc # "ok"]

\* client.publish (lines 330, 381, 400, 444, 463): paho reports a failure in
\* the result code of the returned MQTTMessageInfo, which the code never reads
client_publish(rc) == [raised |-> FALSE]

PredictOutcomes(known, unknown) ==
    {Outcome("predict", known, FALSE, 0),
     Outcome("none", known, TRUE, 85674),
     Outcome("none", unknown, FALSE, 0),
     Outcome("predict_proba", known, TRUE, 0)}

\* a try block that only covers predict: when predict_proba raises, the
\* label predict gave is kept
RunModel_keeps_label(po) ==
    LET confidence == IF po.has_proba THEN po.proba ELSE FullConfidence
    IN IF po.raises = "predict"
       THEN [kondisi |-> "Error", confidence |-> NoConfidence, publish |-> FALSE,
             calls |-> Calls("raised", "none"),
             answer |-> NoAnswer]
       ELSE IF po.has_proba /\ po.raises = "predict_proba"
       THEN [kondisi |-> po.label, confidence |-> NoConfidence, publish |-> FALSE,
             calls |-> Calls("raised", "none"),
             answer |-> NoAnswer]
       ELSE [kondisi |-> po.label, confidence |-> confidence, publish |-> TRUE,
             calls |-> Calls("returned", po.rc),
             answer |-> Answer(po)]

\* a try block that keeps the rounded confidence it publishes
RunModel_rounded(po) ==
    LET confidence == Round2(IF po.has_proba THEN po.proba ELSE FullConfidence)
    IN IF po.raises = "predict" \/ (po.has_proba /\ po.raises = "predict_proba")
       THEN [kondisi |-> "Error", confidence |-> NoConfidence, publish |-> FALSE,
             calls |-> Calls("raised", "none"),
             answer |-> NoAnswer]
       ELSE [kondisi |-> po.label, confidence |-> confidence, publish |-> TRUE,
             calls |-> Calls("returned", po.rc),
             answer |-> Answer(po)]

\* lines 314-333 (and 364-384, 428-447): the try block around the model
RunModel(po) ==
    LET confidence == IF po.has_proba THEN po.proba ELSE FullConfidence
    IN IF po.raises = "predict" \/ (po.has_proba /\ po.raises = "predict_proba")
       THEN [kondisi |-> "Error", confidence |-> NoConfidence, publish |-> FALSE,
             calls |-> Calls("raised", "none"),
             answer |-> NoAnswer]
       ELSE IF client_publish(po.rc).raised
       THEN [kondisi |-> "Error", confidence |-> confidence, publish |-> FALSE,
             calls |-> Calls("returned", po.rc),
             answer |-> Answer(po)]
       ELSE [kondisi |-> po.label, confidence |-> confidence, publish |-> TRUE,
             calls |-> Calls("returned", po.rc),
             answer |-> Answer(po)]

\* lines 386-400 (and 449-463): the rule's label is published outside any try
RunRule(kondisi, po) ==
    [kondisi |-> kondisi, confidence |-> FullConfidence, publish |-> TRUE,
     calls |-> Calls("none", po.rc),
             answer |-> NoAnswer]

GasTempLimit == 5500
LdrTerangMax == 1365
LdrRedupMax == 2730

\* a rule that calls 55 degrees dangerous already
gas_rule_inclusive(gas_detected, temp) ==
    IF ~Truthy(gas_detected) THEN "Aman"
    ELSE IF temp.v >= GasTempLimit THEN "Bahaya"
    ELSE "Waspada"

\* lines 387-392
gas_rule(gas_detected, temp) ==
    IF ~Truthy(gas_detected) THEN "Aman"
    ELSE IF Truthy(gas_detected) /\ temp.v > GasTempLimit THEN "Bahaya"
    ELSE "Waspada"

\* a rule with the first threshold off by one
ldr_rule_strict(ldr_value) ==
    IF ldr_value < LdrTerangMax THEN "Terang"
    ELSE IF ldr_value <= LdrRedupMax THEN "Redup"
    ELSE "Gelap"

\* lines 450-455
ldr_rule(ldr_value) ==
    IF ldr_value <= LdrTerangMax THEN "Terang"
    ELSE IF ldr_value <= LdrRedupMax THEN "Redup"
    ELSE "Gelap"

\* --------------------------------------------------------------- counters
Bump(n, hit) == IF hit THEN n + 1 ELSE n

\* lines 348-354
count_dht(s, kondisi) ==
    [total_messages |-> s.total_messages + 1,
     ideal_count |-> Bump(s.ideal_count, kondisi = "Ideal"),
     panas_count |-> Bump(s.panas_count, kondisi = "Panas"),
     dingin_count |-> Bump(s.dingin_count, kondisi = "Dingin")]

\* counters that put every label they do not know under "waspada"
count_gas_catchall(s, kondisi) ==
    [total_messages |-> s.total_messages + 1,
     aman_count |-> Bump(s.aman_count, kondisi = "Aman"),
     waspada_count |-> Bump(s.waspada_count, kondisi \notin {"Aman", "Bahaya"}),
     bahaya_count |-> Bump(s.bahaya_count, kondisi = "Bahaya")]

\* lines 413-419
count_gas(s, kondisi) ==
    [total_messages |-> s.total_messages + 1,
     aman_count |-> Bump(s.aman_count, kondisi = "Aman"),
     waspada_count |-> Bump(s.waspada_count, kondisi = "Waspada"),
     bahaya_count |-> Bump(s.bahaya_count, kondisi = "Bahaya")]

\* counters that count a message only when its label is known
count_ldr_knownonly(s, kondisi) ==
    [total_messages |-> Bump(s.total_messages, kondisi \in {"Terang", "Redup", "Gelap"}),
     terang_count |-> Bump(s.terang_count, kondisi = "Terang"),
     redup_count |-> Bump(s.redup_count, kondisi = "Redup"),
     gelap_count |-> Bump(s.gelap_count, kondisi = "Gelap")]

\* lines 475-481
count_ldr(s, kondisi) ==
    [total_messages |-> s.total_messages + 1,
     terang_count |-> Bump(s.terang_count, kondisi = "Terang"),
     redup_count |-> Bump(s.redup_count, kondisi = "Redup"),
     gelap_count |-> Bump(s.gelap_count, kondisi = "Gelap")]

\* ---------------------------------------------------------------- handlers
\* The part of st.session_state the callbacks write, of one instance
Pipe(i) == [outbox |-> outbox[i], log_at_publish |-> log_at_publish[i],
            answer |-> answer[i],
            logs |-> logs[i], last_data |-> last_data[i], stats |-> stats[i],
            gas_logs |-> gas_logs[i], gas_last_data |-> gas_last_data[i],
            gas_stats |-> gas_stats[i],
            ldr_logs |-> ldr_logs[i], ldr_last_data |-> ldr_last_data[i],
            ldr_stats |-> ldr_stats[i]]

\* The models the callbacks read, of one instance
Models(i) == [model |-> model[i], model_loaded |-> model_loaded[i],
              gas_model |-> gas_model[i], gas_model_loaded |-> gas_model_loaded[i],
              ldr_model |-> ldr_model[i], ldr_model_loaded |-> ldr_model_loaded[i]]

Publish(topic, kondisi, confidence) ==
    [topic |-> topic, kondisi |-> kondisi, confidence |-> confidence]

\* The publish call of a handler (lines 325-330, 376-381, 395-400): it is
\* made where the code makes it, before the entry is appended, so the log it
\* finds is the one the handler started with.
Sent(p, r, topic, log) ==
    IF r.publish
    THEN [p EXCEPT !.outbox = Append(@, Publish(topic, r.kondisi, Round2(r.confidence))),
                   !.log_at_publish = Len(log)]
    ELSE p

Returned(p) == [raised |-> FALSE, p |-> p]
Raised(p) == [raised |-> TRUE, p |-> p]

\* the result of a handler together with the external calls it made
Called(result, made) == [raised |-> result.raised, p |-> result.p, calls |-> made]

\* a handler with a rule for the readings no model classifies
handle_dht_message_rule(p, m, data, po) ==
    LET temp == Get(data.temp, JNum(0))
        humidity == Get(data.humidity, JNum(0))
        r == IF m.model_loaded /\ m.model # None
             THEN RunModel(po)
             ELSE [kondisi |-> "Ideal", confidence |-> FullConfidence, publish |-> FALSE,
                   calls |-> NoCalls,
             answer |-> NoAnswer]
        log_entry == [temperature |-> temp.v, humidity |-> humidity.v,
                      kondisi |-> r.kondisi, confidence |-> r.confidence]
    IN IF ~Coerces(temp) \/ ~Coerces(humidity) THEN Called(Raised(p), NoCalls)
       ELSE Called(Returned(
              [Sent(p, r, TOPIC_PREDICTION, p.logs) EXCEPT
                        !.answer = r.answer,
                        !.last_data = log_entry,
                        !.logs = Append(@, log_entry),
                        !.stats = count_dht(@, r.kondisi)]), r.calls)

\* lines 306-354.  The timestamp of the entries is left out.
handle_dht_message(p, m, data, po) ==
    LET temp == Get(data.temp, JNum(0))
        humidity == Get(data.humidity, JNum(0))
        r == IF m.model_loaded /\ m.model # None
             THEN RunModel(po)
             ELSE [kondisi |-> "No Model", confidence |-> NoConfidence, publish |-> FALSE,
                   calls |-> NoCalls,
             answer |-> NoAnswer]
        log_entry == [temperature |-> temp.v, humidity |-> humidity.v,
                      kondisi |-> r.kondisi, confidence |-> r.confidence]
    IN IF ~Coerces(temp) \/ ~Coerces(humidity) THEN Called(Raised(p), NoCalls)
       ELSE Called(Returned(
              [Sent(p, r, TOPIC_PREDICTION, p.logs) EXCEPT
                        !.answer = r.answer,
                        !.last_data = log_entry,
                        !.logs = Append(@, log_entry),
                        !.stats = count_dht(@, r.kondisi)]), r.calls)

\* a handler whose rule-based branch forgets to publish
handle_gas_message_silent(p, m, data, po) ==
    LET gas_detected == Get(data.gas_detected, JBool(FALSE))
        temp == Get(data.temp, JNum(0))
        useModel == m.gas_model_loaded /\ m.gas_model # None
        r == IF useModel THEN RunModel(po)
             ELSE [kondisi |-> gas_rule(gas_detected, temp),
                   confidence |-> FullConfidence, publish |-> FALSE,
                   calls |-> NoCalls,
             answer |-> NoAnswer]
        log_entry == [gas_detected |-> gas_detected, temp |-> temp,
                      kondisi |-> r.kondisi, confidence |-> r.confidence]
    IN IF ~useModel /\ Truthy(gas_detected) /\ ~Comparable(temp)
       THEN Called(Raised(p), NoCalls)
       ELSE Called(Returned(
              [Sent(p, r, TOPIC_GAS_PREDICTION, p.gas_logs) EXCEPT
                        !.answer = r.answer,
                        !.gas_last_data = log_entry,
                        !.gas_logs = Append(@, log_entry),
                        !.gas_stats = count_gas(@, r.kondisi)]), r.calls)

\* lines 356-419.  gas_detected and temp are used as they come (no coercion):
\* "temp > 55" raises when gas is detected and temp is a text.
handle_gas_message(p, m, data, po) ==
    LET gas_detected == Get(data.gas_detected, JBool(FALSE))
        temp == Get(data.temp, JNum(0))
        useModel == m.gas_model_loaded /\ m.gas_model # None
        r == IF useModel THEN RunModel(po)
             ELSE RunRule(gas_rule(gas_detected, temp), po)
        log_entry == [gas_detected |-> gas_detected, temp |-> temp,
                      kondisi |-> r.kondisi, confidence |-> r.confidence]
    IN IF ~useModel /\ Truthy(gas_detected) /\ ~Comparable(temp)
       THEN Called(Raised(p), NoCalls)
       ELSE IF ~useModel /\ client_publish(po.rc).raised
       THEN Called(Raised(p), r.calls)
       ELSE Called(Returned(
              [Sent(p, r, TOPIC_GAS_PREDICTION, p.gas_logs) EXCEPT
                        !.answer = r.answer,
                        !.gas_last_data = log_entry,
                        !.gas_logs = Append(@, log_entry),
                        !.gas_stats = count_gas(@, r.kondisi)]), r.calls)

\* a handler that keeps only the latest entry of the log
handle_ldr_message_overwrite(p, m, data, po) ==
    LET raw == Get(data.ldr_value, JNum(0))
        ldr_value == raw.v
        useModel == m.ldr_model_loaded /\ m.ldr_model # None
        r == IF useModel THEN RunModel(po)
             ELSE RunRule(ldr_rule(ldr_value), po)
        log_entry == [ldr_value |-> ldr_value,
                      kondisi |-> r.kondisi, confidence |-> r.confidence]
    IN IF ~Coerces(raw) THEN Called(Raised(p), NoCalls)
       ELSE Called(Returned(
              [Sent(p, r, TOPIC_LDR_PREDICTION, p.ldr_logs) EXCEPT
                        !.answer = r.answer,
                        !.ldr_last_data = log_entry,
                        !.ldr_logs = <<log_entry>>,
                        !.ldr_stats = count_ldr(@, r.kondisi)]), r.calls)

\* lines 421-481
handle_ldr_message(p, m, data, po) ==
    LET raw == Get(data.ldr_value, JNum(0))
        ldr_value == raw.v
        useModel == m.ldr_model_loaded /\ m.ldr_model # None
        r == IF useModel THEN RunModel(po)
             ELSE RunRule(ldr_rule(ldr_value), po)
        log_entry == [ldr_value |-> ldr_value,
                      kondisi |-> r.kondisi, confidence |-> r.confidence]
    IN IF ~Coerces(raw) THEN Called(Raised(p), NoCalls)
       ELSE IF ~useModel /\ client_publish(po.rc).raised
       THEN Called(Raised(p), r.calls)
       ELSE Called(Returned(
              [Sent(p, r, TOPIC_LDR_PREDICTION, p.ldr_logs) EXCEPT
                        !.answer = r.answer,
                        !.ldr_last_data = log_entry,
                        !.ldr_logs = Append(@, log_entry),
                        !.ldr_stats = count_ldr(@, r.kondisi)]), r.calls)

\* lines 288-304: every exception ends in the except clause
\* a callback that treats every other topic as a temperature reading
on_message_default(p, m, msg, po) ==
    IF ~msg.payload.parsed THEN Called(Returned(p), NoCalls)
    ELSE LET data == msg.payload
         IN CASE msg.topic = TOPIC_GAS_DATA -> handle_gas_message(p, m, data, po)
              [] msg.topic = TOPIC_LDR_DATA -> handle_ldr_message(p, m, data, po)
              [] OTHER -> handle_dht_message(p, m, data, po)

\* lines 288-304: every exception ends in the except clause, so the callback
\* always returns
on_message(p, m, msg, po) ==
    IF ~msg.payload.parsed THEN Called(Returned(p), NoCalls)
    ELSE LET data == msg.payload
             r == CASE msg.topic = TOPIC_DATA -> handle_dht_message(p, m, data, po)
                    [] msg.topic = TOPIC_GAS_DATA -> handle_gas_message(p, m, data, po)
                    [] msg.topic = TOPIC_LDR_DATA -> handle_ldr_message(p, m, data, po)
                    [] OTHER -> Called(Returned(p), NoCalls)
         IN Called(Returned(r.p), r.calls)

SetPipe(i, p) ==
    /\ outbox' = [outbox EXCEPT ![i] = p.outbox]
    /\ log_at_publish' = [log_at_publish EXCEPT ![i] = p.log_at_publish]
    /\ answer' = [answer EXCEPT ![i] = p.answer]
    /\ logs' = [logs EXCEPT ![i] = p.logs]
    /\ last_data' = [last_data EXCEPT ![i] = p.last_data]
    /\ stats' = [stats EXCEPT ![i] = p.stats]
    /\ gas_logs' = [gas_logs EXCEPT ![i] = p.gas_logs]
    /\ gas_last_data' = [gas_last_data EXCEPT ![i] = p.gas_last_data]
    /\ gas_stats' = [gas_stats EXCEPT ![i] = p.gas_stats]
    /\ ldr_logs' = [ldr_logs EXCEPT ![i] = p.ldr_logs]
    /\ ldr_last_data' = [ldr_last_data EXCEPT ![i] = p.ldr_last_data]
    /\ ldr_stats' = [ldr_stats EXCEPT ![i] = p.ldr_stats]

\* last_data = None
NoData == [empty |-> TRUE]

\* ------------------------------------------------------------------- Init
\* lines 48-121 and 171-178: a new session_state, and no shared file yet
FreshPipeline ==
    /\ inbound = [i \in Instances |-> <<>>]
    /\ outbox = [i \in Instances |-> <<>>]
    /\ calls = [i \in Instances |-> NoCalls]
    /\ log_at_publish = [i \in Instances |-> 0]
    /\ answer = [i \in Instances |-> NoAnswer]
    /\ logs = [i \in Instances |-> <<>>]
    /\ last_data = [i \in Instances |-> NoData]
    /\ stats = [i \in Instances |-> [total_messages |-> 0, ideal_count |-> 0,
                                     panas_count |-> 0, dingin_count |-> 0]]
    /\ gas_logs = [i \in Instances |-> <<>>]
    /\ gas_last_data = [i \in Instances |-> NoData]
    /\ gas_stats = [i \in Instances |-> [total_messages |-> 0, aman_count |-> 0,
                                         waspada_count |-> 0, bahaya_count |-> 0]]
    /\ ldr_logs = [i \in Instances |-> <<>>]
    /\ ldr_last_data = [i \in Instances |-> NoData]
    /\ ldr_stats = [i \in Instances |-> [total_messages |-> 0, terang_count |-> 0,
                                         redup_count |-> 0, gelap_count |-> 0]]

FreshCoordination ==
    /\ session_file = FileAbsent
    /\ settings_file = SettingsAbsent
    /\ issued = 0
    /\ click = [i \in Instances |-> NoClick]
    /\ new_session_id = [i \in Instances |-> NoSession]
    /\ admin_logged_in = [i \in Instances |-> FALSE]
    /\ admin_session_id = [i \in Instances |-> NoSession]
    /\ monitoring_mode = [i \in Instances |-> "suhu"]
    /\ current_age_category = [i \in Instances |-> "0-3"]
    /\ current_model_path = [i \in Instances |-> "smart_cage_model_03.pkl"]

\* Every instance starts its first script run; no broker connection is up
Init ==
    /\ FreshCoordination
    /\ FreshPipeline
    /\ pc = [i \in Instances |-> "sync"]
    /\ model = [i \in Instances |-> None]
    /\ model_loaded = [i \in Instances |-> FALSE]
    /\ gas_model = [i \in Instances |-> None]
    /\ gas_model_loaded = [i \in Instances |-> FALSE]
    /\ ldr_model = [i \in Instances |-> None]
    /\ ldr_model_loaded = [i \in Instances |-> FALSE]
    /\ connected = [i \in Instances |-> FALSE]

\* Instance A is in mqtt.loop, connected and subscribed (on_connect, lines
\* 277-283), with any of its three models loaded or not by earlier runs;
\* the connection of B failed (lines 494-498).
InitPipe ==
    /\ FreshCoordination
    /\ FreshPipeline
    /\ pc = [i \in Instances |-> "loop"]
    /\ connected = [i \in Instances |-> i = "A"]
    /\ \E d, g, l \in BOOLEAN :
          /\ model_loaded = [i \in Instances |-> i = "A" /\ d]
          /\ model = [i \in Instances |-> IF i = "A" /\ d
                                          THEN "smart_cage_model_03.pkl" ELSE None]
          /\ gas_model_loaded = [i \in Instances |-> i = "A" /\ g]
          /\ gas_model = [i \in Instances |-> IF i = "A" /\ g
                                              THEN "mq2_gas_model.pkl" ELSE None]
          /\ ldr_model_loaded = [i \in Instances |-> i = "A" /\ l]
          /\ ldr_model = [i \in Instances |-> IF i = "A" /\ l
                                              THEN "ldr_light_model.pkl" ELSE None]

\* ------------------------------------------------------------ script run
Goto(i, l) == pc' = [pc EXCEPT ![i] = l]

\* st.rerun() inside a button handler: the next run starts with no event
Rerun(i) == /\ Goto(i, "sync")
            /\ click' = [click EXCEPT ![i] = NoClick]

\* line 516
SyncSettings(i) ==
    /\ pc[i] = "sync"
    /\ \E outcome \in LoadOutcomes :
          SetDht(i, sync_settings_from_file(DhtState(i), settings_file, outcome))
    /\ Goto(i, "check")
    /\ UNCHANGED <<session_file, settings_file, issued, click, new_session_id,
                   admin_logged_in, admin_session_id, monitoring_mode, auxModelVars, pipeVars>>

\* lines 518-524
CheckSession(i) ==
    /\ pc[i] = "check"
    /\ IF admin_logged_in[i] /\ ~check_session_valid(session_file, admin_session_id[i])
       THEN /\ admin_logged_in' = [admin_logged_in EXCEPT ![i] = FALSE]
            /\ admin_session_id' = [admin_session_id EXCEPT ![i] = NoSession]
       ELSE UNCHANGED <<admin_logged_in, admin_session_id>>
    /\ Goto(i, "auth")
    /\ UNCHANGED <<session_file, settings_file, issued, click, new_session_id,
                   monitoring_mode, dhtVars, auxModelVars, pipeVars>>

\* lines 528-534
Logout(i) ==
    /\ pc[i] = "auth"
    /\ admin_logged_in[i]
    /\ click[i].widget = "Logout"
    /\ session_file' = clear_admin_session(session_file)
    /\ admin_logged_in' = [admin_logged_in EXCEPT ![i] = FALSE]
    /\ admin_session_id' = [admin_session_id EXCEPT ![i] = NoSession]
    /\ Rerun(i)
    /\ UNCHANGED <<settings_file, issued, new_session_id, monitoring_mode,
                   dhtVars, auxModelVars, pipeVars>>

\* lines 539-543, up to open(ADMIN_SESSION_FILE, "w"), which empties the file
LoginOpen(i) ==
    /\ pc[i] = "auth"
    /\ ~admin_logged_in[i]
    /\ click[i] = Click("Login", ADMIN_PASSWORD)
    /\ issued < MaxSessions
    /\ issued' = issued + 1
    /\ new_session_id' = [new_session_id EXCEPT ![i] = generate_session_id(issued)]
    /\ session_file' = FileTruncated
    /\ Goto(i, "login_write")
    /\ UNCHANGED <<settings_file, click, admin_logged_in, admin_session_id,
                   monitoring_mode, dhtVars, auxModelVars, pipeVars>>

\* lines 146, 544-547: json.dump and close, then the local state
LoginWrite(i) ==
    /\ pc[i] = "login_write"
    /\ session_file' = write_admin_session(new_session_id[i])
    /\ admin_session_id' = [admin_session_id EXCEPT ![i] = new_session_id[i]]
    /\ admin_logged_in' = [admin_logged_in EXCEPT ![i] = TRUE]
    /\ new_session_id' = [new_session_id EXCEPT ![i] = NoSession]
    /\ Rerun(i)
    /\ UNCHANGED <<settings_file, issued, monitoring_mode, dhtVars, auxModelVars, pipeVars>>

\* lines 548-549, and the runs in which neither button fires
AuthIdle(i) ==
    /\ pc[i] = "auth"
    /\ ~(admin_logged_in[i] /\ click[i].widget = "Logout")
    /\ ~(~admin_logged_in[i] /\ click[i] = Click("Login", ADMIN_PASSWORD))
    /\ Goto(i, "panel")
    /\ UNCHANGED <<session_file, settings_file, issued, click, new_session_id,
                   admin_logged_in, admin_session_id, monitoring_mode,
                   dhtVars, auxModelVars, pipeVars>>

\* lines 557-573
ModeToggle(i) ==
    /\ pc[i] = "panel"
    /\ click[i].widget = "mode"
    /\ monitoring_mode' = [monitoring_mode EXCEPT ![i] = click[i].value]
    /\ Rerun(i)
    /\ UNCHANGED <<session_file, settings_file, issued, new_session_id,
                   admin_logged_in, admin_session_id, dhtVars, auxModelVars, pipeVars>>

\* age buttons drawn for everybody
AgeButtonFires_unguarded(i) ==
    /\ monitoring_mode[i] = "suhu"
    /\ click[i].widget = "age"

\* lines 579-605: the buttons exist only in "suhu" mode and for an admin
AgeButtonFires(i) ==
    /\ monitoring_mode[i] = "suhu"
    /\ admin_logged_in[i]
    /\ click[i].widget = "age"

\* lines 582-605 with change_age_category, up to open(SETTINGS_FILE, "w")
ChangeCategory(i) ==
    /\ pc[i] = "panel"
    /\ AgeButtonFires(i)
    /\ \E outcome \in LoadOutcomes :
          SetDht(i, change_age_category(DhtState(i), click[i].value, outcome))
    /\ settings_file' = SettingsTruncated
    /\ Goto(i, "save_write")
    /\ UNCHANGED <<session_file, issued, click, new_session_id, admin_logged_in,
                   admin_session_id, monitoring_mode, auxModelVars, pipeVars>>

\* line 243: json.dump and close; then st.rerun()
SaveWrite(i) ==
    /\ pc[i] = "save_write"
    /\ settings_file' = save_shared_settings(DhtState(i))
    /\ Rerun(i)
    /\ UNCHANGED <<session_file, issued, new_session_id, admin_logged_in,
                   admin_session_id, monitoring_mode, dhtVars, auxModelVars, pipeVars>>

\* lines 606-609: no button of the panel fires
PanelIdle(i) ==
    /\ pc[i] = "panel"
    /\ click[i].widget # "mode"
    /\ ~AgeButtonFires(i)
    /\ Goto(i, "autoload")
    /\ UNCHANGED <<session_file, settings_file, issued, click, new_session_id,
                   admin_logged_in, admin_session_id, monitoring_mode,
                   dhtVars, auxModelVars, pipeVars>>

\* widgets the last run left on the page
Rendered(i) ==
    (IF admin_logged_in[i]
     THEN {Click("Logout", "")}
          \cup (IF monitoring_mode[i] = "suhu"
                THEN {Click("age", c) : c \in ClickedCategories}
                ELSE {})
     ELSE {Click("Login", p) : p \in Passwords})

PendingLogins ==
    Cardinality({j \in Instances : pc[j] \in {"sync", "check", "auth"}
                                   /\ click[j] = Click("Login", ADMIN_PASSWORD)})

\* lines 611-639
AutoLoad(i) ==
    /\ pc[i] = "autoload"
    /\ \E outcome \in LoadOutcomes :
          /\ IF monitoring_mode[i] = "suhu" /\ ~model_loaded[i]
             THEN SetDht(i, load_dht_model(DhtState(i), current_model_path[i], outcome))
             ELSE UNCHANGED dhtVars
          /\ LET g == IF monitoring_mode[i] = "gas" /\ ~gas_model_loaded[i]
                      THEN load_gas_model([model |-> gas_model[i],
                                           loaded |-> gas_model_loaded[i]], outcome)
                      ELSE [model |-> gas_model[i], loaded |-> gas_model_loaded[i]]
                 l == IF monitoring_mode[i] = "ldr" /\ ~ldr_model_loaded[i]
                      THEN load_ldr_model([model |-> ldr_model[i],
                                           loaded |-> ldr_model_loaded[i]], outcome)
                      ELSE [model |-> ldr_model[i], loaded |-> ldr_model_loaded[i]]
             IN /\ gas_model' = [gas_model EXCEPT ![i] = g.model]
                /\ gas_model_loaded' = [gas_model_loaded EXCEPT ![i] = g.loaded]
                /\ ldr_model' = [ldr_model EXCEPT ![i] = l.model]
                /\ ldr_model_loaded' = [ldr_model_loaded EXCEPT ![i] = l.loaded]
    /\ Goto(i, "loop")
    /\ UNCHANGED <<session_file, settings_file, issued, click, new_session_id,
                   admin_logged_in, admin_session_id, monitoring_mode, pipeVars>>

\* lines 880-884: mqtt.loop with nothing to read, sleep, st.rerun(); the next
\* run is the timer's or the one a click on a rendered widget starts
EndOfRun(i) ==
    /\ pc[i] = "loop"
    /\ \E c \in Rendered(i) \cup {NoClick} :
          /\ c = Click("Login", ADMIN_PASSWORD) => issued + PendingLogins < MaxSessions
          /\ click' = [click EXCEPT ![i] = c]
    /\ Goto(i, "sync")
    /\ UNCHANGED <<session_file, settings_file, issued, new_session_id,
                   admin_logged_in, admin_session_id, monitoring_mode,
                   dhtVars, auxModelVars, pipeVars>>

Next ==
    \E i \in Instances :
        \/ SyncSettings(i)
        \/ CheckSession(i)
        \/ Logout(i)
        \/ LoginOpen(i)
        \/ LoginWrite(i)
        \/ AuthIdle(i)
        \/ ChangeCategory(i)
        \/ SaveWrite(i)
        \/ PanelIdle(i)
        \/ AutoLoad(i)
        \/ EndOfRun(i)

Spec == Init /\ [][Next]_vars

\* one script run after another: each instance's script ends with
\* time.sleep(0.15); st.rerun() (lines 883-884), and every step of a run
\* returns, so an instance that is open never stops executing
ScriptRun(i) ==
    \/ SyncSettings(i)
    \/ CheckSession(i)
    \/ Logout(i)
    \/ LoginOpen(i)
    \/ LoginWrite(i)
    \/ AuthIdle(i)
    \/ ChangeCategory(i)
    \/ SaveWrite(i)
    \/ PanelIdle(i)
    \/ AutoLoad(i)
    \/ EndOfRun(i)

Polling == \A i \in Instances : WF_vars(ScriptRun(i))

SpecLive == Init /\ [][Next]_vars /\ Polling

\* ------------------------------------------------------ viewer's sidebar
\* One instance is open and nobody logs in: the viewer switches between the
\* three monitoring modes, and each run loads what its mode still lacks.
\* An earlier admin may have left a settings record for category 4-7, and
\* an earlier run of A may have loaded the model of category 0-3.
InitPanel ==
    /\ FreshPipeline
    /\ session_file = FileAbsent
    /\ settings_file \in {SettingsAbsent, SettingsData("4-7", AGE_MODEL_MAPPING["4-7"])}
    /\ issued = 0
    /\ click = [i \in Instances |-> NoClick]
    /\ new_session_id = [i \in Instances |-> NoSession]
    /\ admin_logged_in = [i \in Instances |-> FALSE]
    /\ admin_session_id = [i \in Instances |-> NoSession]
    /\ monitoring_mode = [i \in Instances |-> "suhu"]
    /\ current_age_category = [i \in Instances |-> "0-3"]
    /\ current_model_path = [i \in Instances |-> "smart_cage_model_03.pkl"]
    /\ pc = [i \in Instances |-> IF i = "A" THEN "sync" ELSE "closed"]
    /\ \E d \in BOOLEAN :
          /\ model_loaded = [i \in Instances |-> i = "A" /\ d]
          /\ model = [i \in Instances |-> IF i = "A" /\ d
                                          THEN "smart_cage_model_03.pkl" ELSE None]
    /\ gas_model = [i \in Instances |-> None]
    /\ gas_model_loaded = [i \in Instances |-> FALSE]
    /\ ldr_model = [i \in Instances |-> None]
    /\ ldr_model_loaded = [i \in Instances |-> FALSE]
    /\ connected = [i \in Instances |-> FALSE]

\* lines 880-884, for a viewer: the next run is the timer's or the one a
\* click on a mode button (lines 557-573) starts
EndOfRunViewer(i) ==
    /\ pc[i] = "loop"
    /\ \E c \in {Click("mode", m) : m \in Modes} \cup {NoClick} :
          click' = [click EXCEPT ![i] = c]
    /\ Goto(i, "sync")
    /\ UNCHANGED <<session_file, settings_file, issued, new_session_id,
                   admin_logged_in, admin_session_id, monitoring_mode,
                   dhtVars, auxModelVars, pipeVars>>

NextPanel ==
    \E i \in Instances :
        \/ SyncSettings(i)
        \/ CheckSession(i)
        \/ AuthIdle(i)
        \/ ModeToggle(i)
        \/ PanelIdle(i)
        \/ AutoLoad(i)
        \/ EndOfRunViewer(i)

SpecPanel == InitPanel /\ [][NextPanel]_vars

\* ------------------------------------------------------- MQTT callbacks
\* mqtt.loop (line 881) hands one message to on_message (lines 288-304)
Receiving(i) ==
    /\ pc[i] = "loop"
    /\ connected[i]
    /\ Len(inbound[i]) < MaxMsgs

Deliver(i, msg, po) ==
    LET r == on_message(Pipe(i), Models(i), msg, po)
    IN /\ inbound' = [inbound EXCEPT ![i] = Append(@, msg)]
       /\ calls' = [calls EXCEPT ![i] = r.calls]
       /\ SetPipe(i, r.p)

\* What the environment of one callback does.  With a model loaded: one of
\* the model's outcomes with the publish call getting through, or the model
\* answering and the publish call finding no connection.  With no model:
\* nothing is invoked, and the publish call of the rule gets through or not.
Invocations(loaded, known, unknown) ==
    IF loaded
    THEN PredictOutcomes(known, unknown)
            \cup {WithRc(Outcome("none", known, TRUE, 85674), "no_conn")}
    ELSE {WithRc(Outcome("none", known, FALSE, 0), rc) : rc \in PublishOutcomes}

DeliverDht(i) ==
    /\ Receiving(i)
    /\ \E msg \in DhtMessages,
          po \in Invocations(model_loaded[i] /\ model[i] # None, "Panas", "Normal") :
          Deliver(i, msg, po)
    /\ UNCHANGED <<coordVars, dhtVars, auxModelVars, connected>>

DeliverGas(i) ==
    /\ Receiving(i)
    /\ \E msg \in GasMessages,
          po \in Invocations(gas_model_loaded[i] /\ gas_model[i] # None,
                             "Waspada", "Normal") :
          Deliver(i, msg, po)
    /\ UNCHANGED <<coordVars, dhtVars, auxModelVars, connected>>

DeliverLdr(i) ==
    /\ Receiving(i)
    /\ \E msg \in LdrMessages,
          po \in Invocations(ldr_model_loaded[i] /\ ldr_model[i] # None,
                             "Gelap", "Normal") :
          Deliver(i, msg, po)
    /\ UNCHANGED <<coordVars, dhtVars, auxModelVars, connected>>

\* a message on a topic no handler is called for: nothing is invoked
DeliverOther(i) ==
    /\ Receiving(i)
    /\ \E msg \in OtherMessages, po \in PredictOutcomes("Ideal", "Normal") :
          Deliver(i, msg, po)
    /\ UNCHANGED <<coordVars, dhtVars, auxModelVars, connected>>

NextPipe ==
    \E i \in Instances :
        \/ DeliverDht(i)
        \/ DeliverGas(i)
        \/ DeliverLdr(i)
        \/ DeliverOther(i)

SpecPipe == InitPipe /\ [][NextPipe]_vars

\* ===================================================================
\* Claims
\* ===================================================================
Stepped(i, from, to) == pc[i] = from /\ pc'[i] = to

SlotMatches(i) == session_file.state = "ok" /\ session_file.session_id = admin_session_id[i]

\* C1: an instance in Admin state whose session id differs from the id in the
\* durable slot, or that finds the slot empty or unreadable, is Anonymous
\* (admin_logged_in = false, admin_session_id = None) after its next poll.
C1_TakeoverForcesAnonymous ==
    [][\A i \in Instances :
          (Stepped(i, "check", "auth") /\ admin_logged_in[i] /\ ~SlotMatches(i))
              => (~admin_logged_in'[i] /\ admin_session_id'[i] = NoSession)]_vars

\* A was shown the Logout button (it was Admin), B logged in after it, and A's
\* poll has put A back to Anonymous
C1_Witness ==
    /\ pc["A"] = "auth" /\ click["A"].widget = "Logout"
    /\ ~admin_logged_in["A"] /\ admin_session_id["A"] = NoSession
    /\ admin_logged_in["B"] /\ SlotMatches("B")

\* C2: in every reachable state at most one instance is in Admin state with a
\* session id equal to the id stored in the durable admin slot.
C2_AtMostOneValidAdmin ==
    Cardinality({i \in Instances : admin_logged_in[i] /\ SlotMatches(i)}) <= 1

\* both instances believe they are Admin; the slot holds B's id only
C2_Witness ==
    /\ admin_logged_in["A"] /\ admin_logged_in["B"]
    /\ SlotMatches("B") /\ ~SlotMatches("A")

\* C3: an instance in Anonymous state never performs a category switch: its
\* pass over the age buttons changes neither its category, model path and
\* model nor the durable settings record, and every step that touches the
\* settings record is taken by an instance in Admin state.
C3_OnlyAdminChangesConfig ==
    [][\A i \in Instances :
          /\ (pc[i] = "panel" /\ pc'[i] # "panel" /\ ~admin_logged_in[i])
                => (/\ pc'[i] = "autoload"
                    /\ DhtState(i)' = DhtState(i)
                    /\ settings_file' = settings_file)
          /\ (pc'[i] # pc[i] /\ settings_file' # settings_file)
                => admin_logged_in[i]]_vars

\* A pressed an age button while Admin, lost the session to B before the
\* run reached the buttons, and has passed them
C3_Witness ==
    /\ pc["A"] = "autoload" /\ click["A"].widget = "age"
    /\ ~admin_logged_in["A"]
    /\ click["A"].value # current_age_category["A"]

\* C4: after a write of the settings record, an instance's next sync leaves
\* its current_age_category equal to the record's category, and a completed
\* write leaves in the record the category its writer selected (the last
\* writer's value).
C4_ConvergeOnLastWrite ==
    [][\A i \in Instances :
          /\ (Stepped(i, "sync", "check") /\ settings_file.state = "ok")
                => current_age_category'[i] = settings_file.age_category
          /\ Stepped(i, "save_write", "sync")
                => (/\ settings_file'.state = "ok"
                    /\ settings_file'.age_category = click[i].value)]_vars

\* B never logged in, A published "4-7", and B's sync has adopted it
C4_Witness ==
    /\ pc["B"] = "check" /\ issued = 1 /\ admin_session_id["A"] = 1
    /\ settings_file.state = "ok" /\ settings_file.age_category = "4-7"
    /\ current_age_category["B"] = "4-7" /\ model_loaded["B"]

\* C5: sync_settings_from_file is idempotent: for every reachable local state
\* and content of the settings record, a second call with the record
\* unchanged leaves category, model path and model as the first call left
\* them, whatever the outcome of a model load would be.
C5_SyncIdempotent ==
    \A i \in Instances : \A o1, o2 \in LoadOutcomes :
        LET d1 == sync_settings_from_file(DhtState(i), settings_file, o1)
        IN sync_settings_from_file(d1, settings_file, o2) = d1

\* A's sync has adopted B's category although the model load failed; a
\* second call has a load left that it must not make
C5_Witness ==
    /\ pc["A"] = "check" /\ issued = 1 /\ admin_session_id["B"] = 1
    /\ settings_file.state = "ok" /\ settings_file.age_category = "4-7"
    /\ current_age_category["A"] = "4-7" /\ ~model_loaded["A"]

DhtVocabulary == {"Ideal", "Panas", "Dingin"}
GasVocabulary == {"Aman", "Waspada", "Bahaya"}
LdrVocabulary == {"Terang", "Redup", "Gelap"}

DhtSum(i) == stats[i].ideal_count + stats[i].panas_count + stats[i].dingin_count
GasSum(i) == gas_stats[i].aman_count + gas_stats[i].waspada_count + gas_stats[i].bahaya_count
LdrSum(i) == ldr_stats[i].terang_count + ldr_stats[i].redup_count + ldr_stats[i].gelap_count

LabelsOf(log) == {log[k].kondisi : k \in 1..Len(log)}
Outside(log, vocabulary) ==
    Cardinality({k \in 1..Len(log) : log[k].kondisi \notin vocabulary})

\* C6: for every channel, after any sequence of handled messages,
\* total_messages equals the number of records in the channel's log, and the
\* sum of the three category counters is <= total_messages, with equality
\* when every recorded label is in the channel's vocabulary.
C6_TotalCountsRecords ==
    \A i \in Instances :
        /\ stats[i].total_messages = Len(logs[i])
        /\ gas_stats[i].total_messages = Len(gas_logs[i])
        /\ ldr_stats[i].total_messages = Len(ldr_logs[i])
        /\ DhtSum(i) <= stats[i].total_messages
        /\ GasSum(i) <= gas_stats[i].total_messages
        /\ LdrSum(i) <= ldr_stats[i].total_messages
        /\ LabelsOf(logs[i]) \subseteq DhtVocabulary => DhtSum(i) = stats[i].total_messages
        /\ LabelsOf(gas_logs[i]) \subseteq GasVocabulary
              => GasSum(i) = gas_stats[i].total_messages
        /\ LabelsOf(ldr_logs[i]) \subseteq LdrVocabulary
              => LdrSum(i) = ldr_stats[i].total_messages

\* two gas records, one of them with a label the gas counters do not know
C6_Witness ==
    /\ Len(gas_logs["A"]) = 2 /\ gas_stats["A"].total_messages = 2
    /\ GasSum("A") = 1

\* C7 as stated: for every channel, in every reachable state, total_messages
\* equals the sum of the channel's category counters.
C7_TotalEqualsSum ==
    \A i \in Instances :
        /\ stats[i].total_messages = DhtSum(i)
        /\ gas_stats[i].total_messages = GasSum(i)
        /\ ldr_stats[i].total_messages = LdrSum(i)

\* C7, amended: for every channel, in every reachable state, total_messages
\* equals the sum of the channel's category counters plus the number of
\* records of its log whose label is outside the channel's vocabulary.
C7_TotalIsSumPlusOutside ==
    \A i \in Instances :
        /\ stats[i].total_messages = DhtSum(i) + Outside(logs[i], DhtVocabulary)
        /\ gas_stats[i].total_messages = GasSum(i) + Outside(gas_logs[i], GasVocabulary)
        /\ ldr_stats[i].total_messages = LdrSum(i) + Outside(ldr_logs[i], LdrVocabulary)

\* a "Panas" from the model and a record the counters skip, on the
\* temperature channel
C7_Witness ==
    /\ stats["A"].total_messages = 2 /\ stats["A"].panas_count = 1
    /\ DhtSum("A") = 1 /\ Outside(logs["A"], DhtVocabulary) = 1

\* a gas reading of the documented types
TypedGas(payload) ==
    /\ payload.parsed
    /\ Get(payload.gas_detected, JBool(FALSE)).t = "bool"
    /\ Get(payload.temp, JNum(0)).t = "num"

TypedGasHandled(i) ==
    {k \in 1..Len(inbound[i]) :
        inbound[i][k].topic = TOPIC_GAS_DATA /\ TypedGas(inbound[i][k].payload)}

TypedGasRecorded(i) ==
    {k \in 1..Len(gas_logs[i]) :
        gas_logs[i][k].gas_detected.t = "bool" /\ gas_logs[i][k].temp.t = "num"}

\* C8: every gas reading handled while no gas model is loaded is recorded,
\* with label "Aman" exactly if gas_detected is false, "Bahaya" exactly if
\* gas_detected is true and temp > 55, "Waspada" exactly if gas_detected is
\* true and temp <= 55; the label is never "Unknown".
C8_GasFallbackRule ==
    \A i \in Instances :
        ~gas_model_loaded[i] =>
            /\ Cardinality(TypedGasRecorded(i)) = Cardinality(TypedGasHandled(i))
            /\ \A k \in TypedGasRecorded(i) :
                  LET e == gas_logs[i][k]
                      detected == e.gas_detected.v = 1
                  IN /\ (e.kondisi = "Aman") <=> ~detected
                     /\ (e.kondisi = "Bahaya") <=> (detected /\ e.temp.v > 5500)
                     /\ (e.kondisi = "Waspada") <=> (detected /\ e.temp.v <= 5500)
                     /\ e.kondisi \in GasVocabulary

\* gas at 55.00 recorded as "Waspada", then gas at 55.01 recorded as "Bahaya"
C8_Witness ==
    /\ ~gas_model_loaded["A"] /\ Len(gas_logs["A"]) = 2
    /\ gas_logs["A"][1].gas_detected = JBool(TRUE) /\ gas_logs["A"][1].temp = JNum(5500)
    /\ gas_logs["A"][1].kondisi = "Waspada"
    /\ gas_logs["A"][2].gas_detected = JBool(TRUE) /\ gas_logs["A"][2].temp = JNum(5501)
    /\ gas_logs["A"][2].kondisi = "Bahaya"

TypedLdr(payload) ==
    /\ payload.parsed
    /\ Get(payload.ldr_value, JNum(0)).t = "num"

TypedLdrHandled(i) ==
    {k \in 1..Len(inbound[i]) :
        inbound[i][k].topic = TOPIC_LDR_DATA /\ TypedLdr(inbound[i][k].payload)}

\* C9: every light reading with ldr_value in 0..4095 handled while no light
\* model is loaded is recorded, with label "Terang" exactly if value <= 1365,
\* "Redup" exactly if 1365 < value <= 2730, "Gelap" exactly if value > 2730;
\* the label is never "Unknown".
C9_LdrFallbackRule ==
    \A i \in Instances :
        ~ldr_model_loaded[i] =>
            /\ Len(ldr_logs[i]) = Cardinality(TypedLdrHandled(i))
            /\ \A k \in 1..Len(ldr_logs[i]) :
                  LET e == ldr_logs[i][k]
                  IN e.ldr_value \in 0..4095 =>
                        /\ (e.kondisi = "Terang") <=> (e.ldr_value <= 1365)
                        /\ (e.kondisi = "Redup")
                              <=> (1365 < e.ldr_value /\ e.ldr_value <= 2730)
                        /\ (e.kondisi = "Gelap") <=> (e.ldr_value > 2730)
                        /\ e.kondisi \in LdrVocabulary

\* 1365 recorded as "Terang", then 1366 recorded as "Redup"
C9_Witness ==
    /\ ~ldr_model_loaded["A"] /\ Len(ldr_logs["A"]) = 2
    /\ ldr_logs["A"][1].ldr_value = 1365 /\ ldr_logs["A"][1].kondisi = "Terang"
    /\ ldr_logs["A"][2].ldr_value = 1366 /\ ldr_logs["A"][2].kondisi = "Redup"

\* the label the gas rule is documented to give
DocumentedGasLabel(detected, temp) ==
    IF ~detected THEN "Aman" ELSE IF temp > 5500 THEN "Bahaya" ELSE "Waspada"

\* C10: handling a gas message with no gas model loaded publishes exactly one
\* message to the gas prediction topic, with the fallback label and
\* confidence 100.0, appends one record with that label and confidence 100.0
\* to the gas log, and adds 1 to total_messages and to the one counter of
\* that label, leaving the other two counters unchanged.
C10_GasFallbackEndToEnd ==
    [][\A i \in Instances :
          LET msg == inbound'[i][Len(inbound'[i])]
              detected == Get(msg.payload.gas_detected, JBool(FALSE))
              temp == Get(msg.payload.temp, JNum(0))
              label == DocumentedGasLabel(detected.v = 1, temp.v)
              old == gas_stats[i]
              new == gas_stats'[i]
          IN (/\ Len(inbound'[i]) = Len(inbound[i]) + 1
              /\ ~gas_model_loaded[i]
              /\ msg.topic = TOPIC_GAS_DATA
              /\ TypedGas(msg.payload))
             => /\ outbox'[i] = Append(outbox[i],
                                   Publish(TOPIC_GAS_PREDICTION, label, FullConfidence))
                /\ gas_logs'[i] = Append(gas_logs[i],
                                   [gas_detected |-> detected, temp |-> temp,
                                    kondisi |-> label, confidence |-> FullConfidence])
                /\ new.total_messages = old.total_messages + 1
                /\ new.aman_count = old.aman_count + (IF label = "Aman" THEN 1 ELSE 0)
                /\ new.waspada_count
                      = old.waspada_count + (IF label = "Waspada" THEN 1 ELSE 0)
                /\ new.bahaya_count
                      = old.bahaya_count + (IF label = "Bahaya" THEN 1 ELSE 0)]_vars

\* {gas_detected: true, temp: 60} handled with no model: "Bahaya" published
\* with confidence 100.0, bahaya_count 1, total 1
C10_Witness ==
    /\ ~gas_model_loaded["A"]
    /\ inbound["A"] = <<Msg(TOPIC_GAS_DATA,
                            Dict(JNum(6000), JMissing, JBool(TRUE), JMissing))>>
    /\ outbox["A"] = <<Publish(TOPIC_GAS_PREDICTION, "Bahaya", FullConfidence)>>
    /\ gas_stats["A"].bahaya_count = 1 /\ gas_stats["A"].total_messages = 1
    /\ gas_logs["A"][1].kondisi = "Bahaya"

\* ---- the three channels, for the claims that speak of "every channel"
Channels == {"dht", "gas", "ldr"}

DataTopic(ch) ==
    CASE ch = "dht" -> TOPIC_DATA [] ch = "gas" -> TOPIC_GAS_DATA [] ch = "ldr" -> TOPIC_LDR_DATA

PredictionTopic(ch) ==
    CASE ch = "dht" -> TOPIC_PREDICTION
      [] ch = "gas" -> TOPIC_GAS_PREDICTION
      [] ch = "ldr" -> TOPIC_LDR_PREDICTION

KnownTopics == {DataTopic(ch) : ch \in Channels}

LogOf(ch, i) ==
    CASE ch = "dht" -> logs[i] [] ch = "gas" -> gas_logs[i] [] ch = "ldr" -> ldr_logs[i]

LastOf(ch, i) ==
    CASE ch = "dht" -> last_data[i]
      [] ch = "gas" -> gas_last_data[i]
      [] ch = "ldr" -> ldr_last_data[i]

TotalOf(ch, i) ==
    CASE ch = "dht" -> stats[i].total_messages
      [] ch = "gas" -> gas_stats[i].total_messages
      [] ch = "ldr" -> ldr_stats[i].total_messages

\* the category counters of a channel, by label
CountersOf(ch, i) ==
    CASE ch = "dht" -> [l \in DhtVocabulary |->
                          CASE l = "Ideal" -> stats[i].ideal_count
                            [] l = "Panas" -> stats[i].panas_count
                            [] l = "Dingin" -> stats[i].dingin_count]
      [] ch = "gas" -> [l \in GasVocabulary |->
                          CASE l = "Aman" -> gas_stats[i].aman_count
                            [] l = "Waspada" -> gas_stats[i].waspada_count
                            [] l = "Bahaya" -> gas_stats[i].bahaya_count]
      [] ch = "ldr" -> [l \in LdrVocabulary |->
                          CASE l = "Terang" -> ldr_stats[i].terang_count
                            [] l = "Redup" -> ldr_stats[i].redup_count
                            [] l = "Gelap" -> ldr_stats[i].gelap_count]

ModelLoaded(ch, i) ==
    CASE ch = "dht" -> model_loaded[i] /\ model[i] # None
      [] ch = "gas" -> gas_model_loaded[i] /\ gas_model[i] # None
      [] ch = "ldr" -> ldr_model_loaded[i] /\ ldr_model[i] # None

\* this step handed one message to the callback of i
Delivered(i) == Len(inbound'[i]) = Len(inbound[i]) + 1

LastMsg(i) == inbound'[i][Len(inbound'[i])]

\* this step appended the record e to the log of ch and counted it
Recorded(ch, i, e) ==
    /\ LogOf(ch, i)' = Append(LogOf(ch, i), e)
    /\ TotalOf(ch, i)' = TotalOf(ch, i) + 1
    /\ CountersOf(ch, i)' = [l \in DOMAIN CountersOf(ch, i) |->
                               CountersOf(ch, i)[l] + (IF l = e.kondisi THEN 1 ELSE 0)]

NewRecord(ch, i) == LogOf(ch, i)'[Len(LogOf(ch, i)')]

\* C11: for every channel and every classifier source (model or fallback
\* rule), when the publish call of a reading fails, the reading's record is
\* still appended to the channel's log with the label and the confidence that
\* inference produced (those handed to the publish call), and total_messages
\* and the counter of that label are incremented.
C11_PublishFailureKeepsRecord ==
    [][\A i \in Instances :
          (Delivered(i) /\ calls'[i].publish = "no_conn") =>
             \E ch \in Channels :
                /\ LastMsg(i).topic = DataTopic(ch)
                /\ Len(outbox'[i]) = Len(outbox[i]) + 1
                /\ Len(LogOf(ch, i)') = Len(LogOf(ch, i)) + 1
                /\ LET sent == outbox'[i][Len(outbox'[i])]
                       e == NewRecord(ch, i)
                   IN /\ sent.topic = PredictionTopic(ch)
                      /\ e.kondisi = sent.kondisi
                      /\ Round2(e.confidence) = sent.confidence
                      /\ Recorded(ch, i, e)]_vars

\* the gas model said "Waspada" with 85.674 percent, the publish call found
\* no connection, and the record is there with that label and confidence
C11_Witness ==
    /\ calls["A"] = Calls("returned", "no_conn")
    /\ gas_model_loaded["A"]
    /\ Len(gas_logs["A"]) = 1 /\ gas_logs["A"][1].kondisi = "Waspada"
    /\ gas_logs["A"][1].confidence = 85674
    /\ gas_stats["A"].waspada_count = 1 /\ gas_stats["A"].total_messages = 1

\* C12: for every reading that produces a record, on each of the three
\* channels and whatever produced the label (model, fallback rule, "No
\* Model", "Error"), one message carrying the record's label and confidence
\* is sent to the channel's prediction topic.
C12_EveryRecordPublished ==
    [][\A i \in Instances : \A ch \in Channels :
          Len(LogOf(ch, i)') = Len(LogOf(ch, i)) + 1 =>
             LET e == NewRecord(ch, i)
             IN outbox'[i] = Append(outbox[i],
                                Publish(PredictionTopic(ch), e.kondisi,
                                        Round2(e.confidence)))]_vars

\* C13: on any channel with a loaded model, when the model invocation raises
\* while a reading is handled, the callback returns and the reading produces
\* exactly one record, with label "Error" and confidence 0.0; total_messages
\* increases by 1 and no category counter changes.
C13_ModelErrorRecorded ==
    [][\A i \in Instances :
          (Delivered(i) /\ calls'[i].predict = "raised") =>
             \E ch \in Channels :
                /\ LastMsg(i).topic = DataTopic(ch)
                /\ ModelLoaded(ch, i)
                /\ Len(LogOf(ch, i)') = Len(LogOf(ch, i)) + 1
                /\ NewRecord(ch, i).kondisi = "Error"
                /\ NewRecord(ch, i).confidence = NoConfidence
                /\ Recorded(ch, i, NewRecord(ch, i))
                /\ CountersOf(ch, i)' = CountersOf(ch, i)
                /\ \A other \in Channels \ {ch} :
                      /\ LogOf(other, i)' = LogOf(other, i)
                      /\ TotalOf(other, i)' = TotalOf(other, i)]_vars

\* the light model raised on the first reading and on the second
C13_Witness ==
    /\ calls["A"] = Calls("raised", "none")
    /\ ldr_model_loaded["A"] /\ Len(ldr_logs["A"]) = 2
    /\ \A k \in 1..2 : /\ ldr_logs["A"][k].kondisi = "Error"
                       /\ ldr_logs["A"][k].confidence = NoConfidence
    /\ ldr_stats["A"].total_messages = 2 /\ LdrSum("A") = 0

\* a temperature reading float() accepts
DecodedDht(payload) ==
    /\ payload.parsed
    /\ Coerces(Get(payload.temp, JNum(0)))
    /\ Coerces(Get(payload.humidity, JNum(0)))

\* C14: on the temperature/humidity channel with no model loaded, every
\* reading produces a record with label "No Model" and confidence 0.0;
\* total_messages increases by 1 and none of ideal_count, panas_count and
\* dingin_count changes.
C14_NoModelPolicy ==
    [][\A i \in Instances :
          LET data == LastMsg(i).payload
          IN (/\ Delivered(i)
              /\ LastMsg(i).topic = TOPIC_DATA
              /\ DecodedDht(data)
              /\ ~ModelLoaded("dht", i))
             => /\ logs'[i] = Append(logs[i],
                                 [temperature |-> Get(data.temp, JNum(0)).v,
                                  humidity |-> Get(data.humidity, JNum(0)).v,
                                  kondisi |-> "No Model",
                                  confidence |-> NoConfidence])
                /\ stats'[i] = [stats[i] EXCEPT !.total_messages = @ + 1]]_vars

\* {temp: 24.5} with no model: humidity 0, "No Model", no counter moved
C14_Witness ==
    /\ ~model_loaded["A"]
    /\ inbound["A"] = <<Msg(TOPIC_DATA, Dict(JNum(2450), JMissing, JMissing, JMissing))>>
    /\ logs["A"] = <<[temperature |-> 2450, humidity |-> 0,
                      kondisi |-> "No Model", confidence |-> NoConfidence]>>
    /\ stats["A"].total_messages = 1 /\ DhtSum("A") = 0

\* a payload the handler of ch can turn into a reading: json.loads accepts it
\* and the numeric fields are numbers (the defaults stand in for missing ones)
Decoded(ch, payload) ==
    CASE ch = "dht" -> DecodedDht(payload)
      [] ch = "gas" -> payload.parsed /\ Coerces(Get(payload.temp, JNum(0)))
      [] ch = "ldr" -> payload.parsed /\ Coerces(Get(payload.ldr_value, JNum(0)))

\* the records, counters and last readings of all channels of i
Aggregates(i) ==
    [ch \in Channels |-> <<LogOf(ch, i), TotalOf(ch, i), CountersOf(ch, i), LastOf(ch, i)>>]

\* C15: a message on a known topic whose payload cannot be decoded into a
\* reading (not parseable, or a required field that cannot be type-coerced)
\* is dropped atomically: no record is appended and no log, counter or
\* last-reading value of any channel changes.
C15_DecodeErrorDropped ==
    [][\A i \in Instances : \A ch \in Channels :
          (/\ Delivered(i)
           /\ LastMsg(i).topic = DataTopic(ch)
           /\ ~Decoded(ch, LastMsg(i).payload))
          => Aggregates(i)' = Aggregates(i)]_vars

\* C19: handling a message on a topic that is none of the three data topics
\* changes no log, no counter, no last-reading value and no model state of
\* any channel, and publishes nothing.
C19_UnknownTopicIgnored ==
    [][\A i \in Instances :
          (Delivered(i) /\ LastMsg(i).topic \notin KnownTopics)
          => /\ Pipe(i)' = Pipe(i)
             /\ Models(i)' = Models(i)
             /\ calls'[i] = NoCalls]_vars

\* a gas reading was recorded and published, then a status message came and
\* left all of it as it was
C19_Witness ==
    /\ Len(inbound["A"]) = 2
    /\ inbound["A"][1].topic = TOPIC_GAS_DATA /\ inbound["A"][2].topic = TOPIC_OTHER
    /\ Len(gas_logs["A"]) = 1 /\ Len(outbox["A"]) = 1
    /\ Len(logs["A"]) = 0 /\ Len(ldr_logs["A"]) = 0
    /\ gas_stats["A"].total_messages = 1

\* new is old, or old with one entry added at the end
Extended(old, new) ==
    \/ new = old
    \/ Len(new) = Len(old) + 1 /\ SubSeq(new, 1, Len(old)) = old

\* no counter of the record new is below its value in old
NotBelow(old, new) == \A f \in DOMAIN old : new[f] >= old[f]

\* C20: each decoded reading on a known channel appends exactly one record
\* to the log of that channel; in every step the log of each channel is
\* unchanged or extended by exactly one entry at its end, and no counter
\* decreases.
C20_AppendOnly ==
    [][\A i \in Instances :
          /\ Extended(logs[i], logs'[i])
          /\ Extended(gas_logs[i], gas_logs'[i])
          /\ Extended(ldr_logs[i], ldr_logs'[i])
          /\ NotBelow(stats[i], stats'[i])
          /\ NotBelow(gas_stats[i], gas_stats'[i])
          /\ NotBelow(ldr_stats[i], ldr_stats'[i])
          /\ Delivered(i) =>
                \A ch \in Channels :
                   (LastMsg(i).topic = DataTopic(ch) /\ Decoded(ch, LastMsg(i).payload))
                   => /\ Len(LogOf(ch, i)') = Len(LogOf(ch, i)) + 1
                      /\ \A other \in Channels \ {ch} :
                            LogOf(other, i)' = LogOf(other, i)]_vars

\* two temperature readings in the order they came: the model said "Panas"
\* for the first and raised on the second
C20_Witness ==
    /\ model_loaded["A"] /\ Len(logs["A"]) = 2
    /\ logs["A"][1].temperature = 3000 /\ logs["A"][1].kondisi = "Panas"
    /\ logs["A"][2].temperature = 2450 /\ logs["A"][2].kondisi = "Error"
    /\ stats["A"].total_messages = 2 /\ stats["A"].panas_count = 1

\* instance i leaves the position where the login and logout buttons are
LeavesAuth(i) == pc[i] = "auth" /\ pc'[i] # "auth"

\* the ids in use before the step: those the instances hold and the slot's
IdsInUse ==
    {admin_session_id[j] : j \in Instances}
        \cup {NoSession}
        \cup (IF session_file.state = "ok" THEN {session_file.session_id} ELSE {})

\* C17: an Anonymous instance that submits the matching password becomes
\* Admin with a newly generated session id, and right after that the slot
\* holds exactly this id, whatever it held before; a login attempt with
\* another password leaves the instance Anonymous and the slot unchanged.
C17_LoginTransition ==
    [][\A i \in Instances :
          /\ (LeavesAuth(i) /\ ~admin_logged_in[i]
                /\ click[i] = Click("Login", ADMIN_PASSWORD))
             => /\ pc'[i] = "login_write"
                /\ new_session_id'[i] \notin IdsInUse
                /\ \A j \in Instances \ {i} : new_session_id'[i] # new_session_id[j]
          /\ Stepped(i, "login_write", "sync")
             => /\ admin_logged_in'[i]
                /\ admin_session_id'[i] = new_session_id[i]
                /\ admin_session_id'[i] \notin IdsInUse
                /\ session_file' = SessionData(admin_session_id'[i])
          /\ (LeavesAuth(i) /\ ~admin_logged_in[i] /\ click[i].widget = "Login"
                /\ click[i].value # ADMIN_PASSWORD)
             => /\ ~admin_logged_in'[i]
                /\ admin_session_id'[i] = NoSession
                /\ pc'[i] = "panel"
                /\ UNCHANGED <<session_file, issued, new_session_id>>]_vars

\* A has just logged in with id 2 over the session 1 of B, which B has not
\* noticed yet
C17_Witness ==
    /\ pc["A"] = "sync" /\ click["A"] = NoClick
    /\ admin_logged_in["A"] /\ admin_session_id["A"] = 2
    /\ session_file = SessionData(2)
    /\ admin_logged_in["B"] /\ admin_session_id["B"] = 1

\* C18: an instance in Admin state that logs out is Anonymous afterwards
\* (admin_logged_in = false, admin_session_id = None) and the slot is empty;
\* a poll by an Anonymous instance changes neither its local state nor the
\* slot.
C18_LogoutTransition ==
    [][\A i \in Instances :
          /\ (LeavesAuth(i) /\ admin_logged_in[i] /\ click[i].widget = "Logout")
             => /\ ~admin_logged_in'[i]
                /\ admin_session_id'[i] = NoSession
                /\ session_file' = FileAbsent
          /\ (Stepped(i, "check", "auth") /\ ~admin_logged_in[i])
             => /\ ~admin_logged_in'[i]
                /\ admin_session_id'[i] = admin_session_id[i]
                /\ DhtState(i)' = DhtState(i)
                /\ UNCHANGED <<session_file, settings_file, click, monitoring_mode>>]_vars

\* A was Admin with the only id issued, switched to category 4-7 and has
\* logged out: no file is left
C18_Witness ==
    /\ issued = 1 /\ session_file = FileAbsent
    /\ pc["A"] = "sync" /\ click["A"] = NoClick
    /\ ~admin_logged_in["A"] /\ admin_session_id["A"] = NoSession
    /\ ~admin_logged_in["B"] /\ new_session_id["B"] = NoSession
    /\ current_age_category["A"] = "4-7"

\* what a channel classifies with
DhtSlot(i) == <<model[i], model_loaded[i], current_model_path[i]>>
GasSlot(i) == <<gas_model[i], gas_model_loaded[i]>>
LdrSlot(i) == <<ldr_model[i], ldr_model_loaded[i]>>

ModelPaths == {AGE_MODEL_MAPPING[c] : c \in DOMAIN AGE_MODEL_MAPPING}

\* C16: a model load that fails leaves, for every channel, the model object,
\* the model_loaded flag and (temperature/humidity) current_model_path
\* exactly as they were: after any step the channel has the artifact it
\* tried to load, completely, or what it had before, and in the runs where
\* the load is retried and fails again the channel stays as it is.
C16_FailedLoadKeepsModel ==
    [][\A i \in Instances :
          /\ \/ DhtSlot(i)' = DhtSlot(i)
             \/ \E path \in ModelPaths : DhtSlot(i)' = <<path, TRUE, path>>
          /\ \/ GasSlot(i)' = GasSlot(i)
             \/ GasSlot(i)' = <<"mq2_gas_model.pkl", TRUE>>
          /\ \/ LdrSlot(i)' = LdrSlot(i)
             \/ LdrSlot(i)' = <<"ldr_light_model.pkl", TRUE>>
          /\ (Stepped(i, "sync", "check")
                /\ current_age_category'[i] # current_age_category[i]
                /\ current_model_path'[i] # AGE_MODEL_MAPPING[current_age_category'[i]])
             => DhtSlot(i)' = DhtSlot(i)
          /\ (Stepped(i, "autoload", "loop") /\ monitoring_mode[i] = "gas"
                /\ ~gas_model_loaded'[i])
             => GasSlot(i)' = GasSlot(i)
          /\ (Stepped(i, "autoload", "loop") /\ monitoring_mode[i] = "ldr"
                /\ ~ldr_model_loaded'[i])
             => LdrSlot(i)' = LdrSlot(i)]_vars

\* the sync has adopted category 4-7 from the settings record, the load of
\* its model failed, and the model of category 0-3 is still the one loaded
C16_Witness ==
    /\ pc["A"] = "check"
    /\ current_age_category["A"] = "4-7"
    /\ settings_file = SettingsData("4-7", AGE_MODEL_MAPPING["4-7"])
    /\ DhtSlot("A") = <<"smart_cage_model_03.pkl", TRUE, "smart_cage_model_03.pkl">>

\* C21: within one reading the record is appended to the channel's log and
\* the counters are updated before the result is published: whenever a
\* callback publishes, the record of that reading is already in the log and
\* counted at the moment of the publish call.
C21_RecordBeforePublish ==
    [][\A i \in Instances :
          Len(outbox'[i]) = Len(outbox[i]) + 1 =>
             \E ch \in Channels :
                /\ outbox'[i][Len(outbox'[i])].topic = PredictionTopic(ch)
                /\ Len(LogOf(ch, i)') = Len(LogOf(ch, i)) + 1
                /\ TotalOf(ch, i)' = TotalOf(ch, i) + 1
                /\ log_at_publish'[i] = Len(LogOf(ch, i)')]_vars

\* C22: on every channel, when a model is loaded and its invocation succeeds,
\* the record's label is the label the model predicted (the fallback rule is
\* not applied) and its confidence is max(probabilities) * 100 if the model
\* has predict_proba and exactly 100 otherwise; when the fallback rule is
\* used the confidence is exactly 100; every record's confidence lies in
\* 0..100.
C22_SelectionAndConfidence ==
    [][\A i \in Instances : \A ch \in Channels :
          (Delivered(i) /\ Len(LogOf(ch, i)') = Len(LogOf(ch, i)) + 1) =>
             LET e == NewRecord(ch, i)
                 a == answer'[i]
             IN /\ ModelLoaded(ch, i) <=> calls'[i].predict # "none"
                /\ calls'[i].predict = "returned"
                   => /\ e.kondisi = a.label
                      /\ e.confidence = IF a.has_proba THEN a.proba ELSE FullConfidence
                /\ (~ModelLoaded(ch, i) /\ ch # "dht")
                   => e.confidence = FullConfidence
                /\ e.confidence \in NoConfidence..FullConfidence]_vars

\* the light model answered "Gelap" with 85.674 percent for a reading of 0,
\* which the rule would call "Terang"
C22_Witness ==
    /\ ldr_model_loaded["A"] /\ calls["A"].predict = "returned"
    /\ answer["A"] = [label |-> "Gelap", has_proba |-> TRUE, proba |-> 85674]
    /\ Len(ldr_logs["A"]) = 1
    /\ ldr_logs["A"][1] = [ldr_value |-> 0, kondisi |-> "Gelap", confidence |-> 85674]


\* the steps in which instance i writes current_settings.json: open(.., "w")
\* at the end of ChangeCategory and json.dump in SaveWrite
WritesSettings(i) ==
    Stepped(i, "panel", "save_write") \/ Stepped(i, "save_write", "sync")

\* C23: a configuration write is made only by the current holder of the
\* admin slot: in every step in which an instance writes the settings file
\* (change_age_category -> save_shared_settings), the id of its local
\* session is the id stored in admin_session.json, whatever another
\* instance's login does between the writer's session check and its write.
C23_WriterHoldsSlot ==
    [][\A i \in Instances :
          WritesSettings(i) => (admin_logged_in[i] /\ SlotMatches(i))]_vars

\* C24: a logout never destroys another instance's admin session: a logout
\* step that empties admin_session.json finds in it the id of the instance
\* that logs out, whatever another instance's login did before it.
C24_LogoutRemovesOwnSession ==
    [][\A i \in Instances :
          (LeavesAuth(i) /\ admin_logged_in[i] /\ click[i].widget = "Logout"
              /\ session_file # FileAbsent /\ session_file' = FileAbsent)
             => SlotMatches(i)]_vars

\* C25: in every reachable state of every instance, a loaded
\* temperature/humidity model is the model of the current age category:
\* model_loaded => current_model_path = AGE_MODEL_MAPPING[current_age_category].
C25_LoadedModelMatchesCategory ==
    \A i \in Instances :
       model_loaded[i] =>
          /\ current_age_category[i] \in DOMAIN AGE_MODEL_MAPPING
          /\ current_model_path[i] = AGE_MODEL_MAPPING[current_age_category[i]]

\* C26: every settings record written is self-consistent: when json.dump of
\* save_shared_settings has completed, the file holds a category of
\* AGE_MODEL_MAPPING together with the model path of that category, also
\* when the load for the new category failed in the writing instance.
C26_WrittenRecordConsistent ==
    [][\A i \in Instances :
          Stepped(i, "save_write", "sync") =>
             /\ settings_file'.state = "ok"
             /\ settings_file'.age_category \in DOMAIN AGE_MODEL_MAPPING
             /\ settings_file'.model_path
                   = AGE_MODEL_MAPPING[settings_file'.age_category]]_vars


\* a step of the login or of the logout handler of some instance
LoginOrLogout == \E i \in Instances : Logout(i) \/ LoginOpen(i) \/ LoginWrite(i)

\* the instances in Admin state
Admins == {i \in Instances : admin_logged_in[i]}

\* at most one instance is Admin, and it is the one whose id is in the slot
Settled ==
    /\ Cardinality(Admins) <= 1
    /\ \A i \in Admins : SlotMatches(i)

\* C27: admin session stabilisation: in every behaviour in which each
\* instance keeps running its script and, from some point on, no login and
\* no logout step is taken, eventually and for ever at most one instance is
\* Admin and it is the one whose id is in admin_session.json; so with no
\* session file left every instance ends up, and stays, Anonymous.
C27_AdminStabilises ==
    <>[][~LoginOrLogout]_vars => <>[]Settled


\* B logged in after A and holds the slot; A's next session check has made
\* A Anonymous, and both instances have gone on to further script runs
C27_Witness ==
    /\ issued = 2 /\ session_file = SessionData(2)
    /\ admin_logged_in["B"] /\ admin_session_id["B"] = 2
    /\ ~admin_logged_in["A"] /\ admin_session_id["A"] = NoSession
    /\ pc["A"] = "loop" /\ pc["B"] = "loop"
    /\ click["A"] = NoClick /\ click["B"] = NoClick

====
